---- MODULE Spec2Model ----
(***************************************************************************)
(* Model of TextFindAndReplace (find, findLines, findMultipleKeywords,     *)
(* isAllKeywordsExcluded, replace, buildFindTextRegex,                     *)
(* buildFindLineTextRegex) together with the part of the host regular      *)
(* expression engine the code relies on: pattern compilation and the       *)
(* stateful exec() of a global RegExp with its lastIndex cursor.           *)
(*                                                                         *)
(* Strings are sequences of one-character strings.  Offsets are 0-based as *)
(* in the source; sequences are 1-based, so the character at offset i of a *)
(* text t is t[i + 1].                                                     *)
(***************************************************************************)
EXTENDS Integers, Sequences, FiniteSets, TLC

\* ------------------------------------------------------------------ bounds

\* Longest document (highest absolute offset a block may reach).
MaxDoc == 3
\* Most blocks passed to one call.
MaxBlocks == 2
\* Largest maxMatchLimit tried (0 means unlimited).
MaxLimit == 3
\* Most compiled patterns a direct caller hands to findMultipleKeywords.
MaxPatterns == 2
\* Longest text handed to replace, most matches, longest replacement.
MaxText == 3
MaxMatches == 2
MaxReplace == 2

\* ------------------------------------------------------------- characters

NL == "\n"
BS == "\\"

\* Characters of the searched texts: a lower/upper case pair, a non-word
\* character and the line terminator.
Chars == {"a", "A", NL}

\* Characters with a meaning of their own in a pattern source.
MetaChars == {".", "*", BS}

\* \w of the host engine, restricted to the characters in use.
IsWordChar(c) == c \in {"a", "A", "b"}

\* Canonicalize(ch) under the i flag.
FoldCase(c) == IF c = "A" THEN "a" ELSE c

\* substring(from, to) on a sequence, 0-based, end exclusive.
Substring(t, from, to) == SubSeq(t, from + 1, to)

\* String.prototype.substring(a, b): both clamped to the string, swapped when
\* a > b.
JsSubstring(t, a, b) ==
    LET Clamp(x) == IF x < 0 THEN 0 ELSE IF x > Len(t) THEN Len(t) ELSE x
        lo == IF Clamp(a) <= Clamp(b) THEN Clamp(a) ELSE Clamp(b)
        hi == IF Clamp(a) <= Clamp(b) THEN Clamp(b) ELSE Clamp(a)
    IN SubSeq(t, lo + 1, hi)

\* Sequences over S of length 0..n.
SeqUpTo(S, n) == UNION {[1..k -> S] : k \in 0..n}

\* ------------------------------------------------- literal escaper (407)

\* StringUtils.escapeRegularExpress: every metacharacter gets a backslash in
\* front of it, every other character is kept.
RECURSIVE escapeRegularExpress(_)
escapeRegularExpress(s) ==
    IF s = <<>> THEN <<>>
    ELSE (IF Head(s) \in MetaChars THEN <<BS, Head(s)>> ELSE <<Head(s)>>)
         \o escapeRegularExpress(Tail(s))

\* --------------------------------------------------- new RegExp(pattern)

\* An atom of a compiled pattern:
\*   kind "char": the character ch;  "any": . (any character but a line
\*   terminator);  "wb": the assertion \b.  star: the atom carries *.
Atom(kind, ch) == [kind |-> kind, ch |-> ch, star |-> FALSE]

\* The pattern parser.  Returns [ok, atoms]; ok = FALSE is the SyntaxError of
\* the constructor (a * with nothing to repeat, a lone trailing backslash).
RECURSIVE ParsePattern(_, _, _)
ParsePattern(p, i, acc) ==
    IF i > Len(p) THEN [ok |-> TRUE, atoms |-> acc]
    ELSE LET c == p[i] IN
         IF c = BS THEN
             IF i = Len(p) THEN [ok |-> FALSE, atoms |-> <<>>]
             ELSE IF p[i + 1] = "b"
                  THEN ParsePattern(p, i + 2, Append(acc, Atom("wb", "")))
                  ELSE ParsePattern(p, i + 2, Append(acc, Atom("char", p[i + 1])))
         ELSE IF c = "*" THEN
             IF acc = <<>> \/ acc[Len(acc)].star \/ acc[Len(acc)].kind = "wb"
             THEN [ok |-> FALSE, atoms |-> <<>>]
             ELSE ParsePattern(p, i + 1,
                      [acc EXCEPT ![Len(acc)].star = TRUE])
         ELSE IF c = "."
              THEN ParsePattern(p, i + 1, Append(acc, Atom("any", "")))
              ELSE ParsePattern(p, i + 1, Append(acc, Atom("char", c)))

\* The value the builders return when the constructor throws.
Undefined == [valid |-> FALSE, atoms |-> <<>>, ignoreCase |-> FALSE, lastIndex |-> 0]

\* try { new RegExp(pattern, flags) } catch (SyntaxError) { }
NewRegExp(pattern, ignoreCase) ==
    LET r == ParsePattern(pattern, 1, <<>>) IN
    IF r.ok
    THEN [valid |-> TRUE, atoms |-> r.atoms, ignoreCase |-> ignoreCase, lastIndex |-> 0]
    ELSE Undefined

\* ------------------------------------------------------------ the matcher

\* \b at offset i of t: exactly one side is a word character.
IsWordBoundary(t, i) ==
    LET before == i > 0 /\ IsWordChar(t[i])
        after  == i < Len(t) /\ IsWordChar(t[i + 1])
    IN before # after

\* Does the one-character atom a accept the character d?
AtomAccepts(a, d, ic) ==
    IF a.kind = "any" THEN d # NL
    ELSE IF ic THEN FoldCase(a.ch) = FoldCase(d) ELSE a.ch = d

\* Length of the longest run of characters accepted by a from offset i.
RECURSIVE RunLength(_, _, _, _)
RunLength(a, t, i, ic) ==
    IF i < Len(t) /\ AtomAccepts(a, t[i + 1], ic)
    THEN 1 + RunLength(a, t, i + 1, ic)
    ELSE 0

\* Backtracking match of atoms[k..] at offset i: the end offset of the first
\* match in the engine's priority order (a star is greedy), or -1.
RECURSIVE MatchHere(_, _, _, _, _)
RECURSIVE MatchStar(_, _, _, _, _, _)
MatchHere(atoms, k, t, i, ic) ==
    IF k > Len(atoms) THEN i
    ELSE LET a == atoms[k] IN
         IF a.kind = "wb"
         THEN IF IsWordBoundary(t, i) THEN MatchHere(atoms, k + 1, t, i, ic) ELSE -1
         ELSE IF a.star
         THEN MatchStar(atoms, k, t, i, ic, RunLength(a, t, i, ic))
         ELSE IF i < Len(t) /\ AtomAccepts(a, t[i + 1], ic)
              THEN MatchHere(atoms, k + 1, t, i + 1, ic)
              ELSE -1
MatchStar(atoms, k, t, i, ic, n) ==
    LET e == MatchHere(atoms, k + 1, t, i + n, ic) IN
    IF e # -1 THEN e
    ELSE IF n = 0 THEN -1
    ELSE MatchStar(atoms, k, t, i, ic, n - 1)

\* The value exec() returns when nothing matches.
Null == [index |-> -1, text |-> <<>>]

\* First offset >= i where the pattern matches, as a match object, or Null.
RECURSIVE SearchFrom(_, _, _)
SearchFrom(regex, t, i) ==
    IF i > Len(t) THEN Null
    ELSE LET e == MatchHere(regex.atoms, 1, t, i, regex.ignoreCase) IN
         IF e # -1 THEN [index |-> i, text |-> Substring(t, i, e)]
         ELSE SearchFrom(regex, t, i + 1)

\* regex.exec(t) of a global RegExp: the search starts at lastIndex; a match
\* leaves lastIndex at its end (so a zero-width match does not move it), a
\* failure resets lastIndex to 0.  Returns the match and the regex after it.
Exec(regex, t) ==
    LET m == SearchFrom(regex, t, regex.lastIndex) IN
    [match |-> m,
     regex |-> [regex EXCEPT !.lastIndex =
                   IF m = Null THEN 0 ELSE m.index + Len(m.text)]]

\* --------------------------------------------------------------- builders

\* TextFindAndReplace.buildFindTextRegex.  The flags are 'gm' (+ 'i'): g is
\* what Exec models, m only changes ^ and $, which the patterns here lack.
buildFindTextRegex(keyword, isCaseSensitive, isWholeWord, isRegularExpression) ==
    LET escaped == escapeRegularExpress(keyword)
        pattern == IF isRegularExpression THEN keyword
                   ELSE IF isWholeWord THEN <<BS, "b">> \o escaped \o <<BS, "b">>
                   ELSE escaped
    IN NewRegExp(pattern, ~isCaseSensitive)

\* TextFindAndReplace.buildFindLineTextRegex (flags 'g' (+ 'i')).
buildFindLineTextRegex(keyword, isCaseSensitive, isWholeWord) ==
    LET escaped == escapeRegularExpress(keyword)
        pattern == IF isWholeWord THEN <<BS, "b">> \o escaped \o <<BS, "b">>
                   ELSE escaped
    IN NewRegExp(pattern, ~isCaseSensitive)

\* ------------------------------------------------------------ data holders

PartialTextContent(offset, textContent) ==
    [offset |-> offset, textContent |-> textContent]

MatchItem(start, end, textContent) ==
    [start |-> start, end |-> end, textContent |-> textContent]

SubMatchItem(offset, textContent) ==
    [offset |-> offset, textContent |-> textContent]

LineMatchItem(start, end, textContent, subItems) ==
    [start |-> start, end |-> end, textContent |-> textContent,
     subMatchItems |-> subItems]

ReplaceResult(textContent, cursorPosition) ==
    [textContent |-> textContent, cursorPosition |-> cursorPosition]

\* ------------------------------------------------------------ line reader

\* TextLineReader.getLineTextSelections: the ranges of the lines of t, in
\* order, each without its terminator; i scans t, from is the start of the
\* line being read.
RECURSIVE LineSelectionsFrom(_, _, _)
LineSelectionsFrom(t, from, i) ==
    IF i >= Len(t) THEN << [start |-> from, end |-> Len(t)] >>
    ELSE IF t[i + 1] = NL
         THEN << [start |-> from, end |-> i] >> \o LineSelectionsFrom(t, i + 1, i + 1)
         ELSE LineSelectionsFrom(t, from, i + 1)

getLineTextSelections(t) == LineSelectionsFrom(t, 0, 0)

\* TextLineReader.getTextLineByTextSelection(t, selection).textContent
LineTextContent(t, selection) == Substring(t, selection.start, selection.end)

\* ------------------------------------------------------------------ inputs

Texts == SeqUpTo(Chars, MaxDoc)

\* Keywords handed to find: literals, patterns that can match the empty
\* string, a pattern the constructor rejects, and the empty keyword.
Keywords ==
    { <<>>, <<"a">>, <<"A">>, <<"a", "a">>,
      <<".", "*">>, <<"a", "*">>, <<"*">> }

\* Keyword lists handed to findLines ("" is a keyword a caller can pass).
IncludeKeywordLists ==
    { <<>>, << <<"a">> >>, << <<"a">>, <<"A">> >>, << <<>> >> }

ExcludeKeywordLists ==
    { <<>>, << <<"A">> >> }

\* Compiled patterns handed to findMultipleKeywords by a direct caller.
CompiledPatterns ==
    { buildFindTextRegex(<<"a">>, TRUE, FALSE, FALSE),
      buildFindTextRegex(<<"A">>, FALSE, TRUE, FALSE),
      buildFindTextRegex(<<".">>, TRUE, FALSE, TRUE),
      buildFindTextRegex(<<".", "*">>, TRUE, FALSE, TRUE),
      buildFindTextRegex(<<"a", "*">>, TRUE, FALSE, TRUE) }

\* Block lists of exactly k blocks starting at or after offset from: disjoint
\* non-empty spans of a document of at most MaxDoc characters, in position
\* order.
RECURSIVE BlockListsOfLen(_, _)
BlockListsOfLen(k, from) ==
    IF k = 0 THEN {<<>>}
    ELSE UNION { { <<PartialTextContent(x[1], x[2])>> \o rest :
                     rest \in BlockListsOfLen(k - 1, x[1] + Len(x[2])) } :
                 x \in { y \in (from..MaxDoc) \X (Texts \ {<<>>}) :
                           y[1] + Len(y[2]) <= MaxDoc } }

\* The block lists handed to find and findLines: no block, one empty block,
\* or up to MaxBlocks non-empty blocks.
BlockLists ==
    { <<PartialTextContent(o, <<>>)>> : o \in 0..MaxDoc }
        \cup UNION { BlockListsOfLen(k, 0) : k \in 0..MaxBlocks }

\* ------------------------------------------------------------------- state

VARIABLES
    op,               \* the entry point called
    args,             \* its arguments
    pc,               \* position in the running function
    result,           \* what the call returned ([threw, value]) once pc = "done"
    regex,            \* find: the compiled pattern, with its lastIndex
    blockIdx,         \* find, findLines: index of the block of the for loop
    match,            \* find, findMultipleKeywords: last value of exec()
    lastPosition,     \* find, findMultipleKeywords
    matchItems,       \* find
    includeRegexies,  \* findLines, findMultipleKeywords
    excludeRegexies,  \* findLines
    lineIdx,          \* findLines: index of the line of the inner for loop
    lineMatchItems,   \* findLines
    fmk,              \* findMultipleKeywords: textContent, extraOffset, maxMatchLimit
    regexIdx,         \* findMultipleKeywords: index of the regex of the for loop
    subMatchItems     \* findMultipleKeywords (and its value in findLines)

vars == <<op, args, pc, result, regex, blockIdx, match, lastPosition, matchItems,
          includeRegexies, excludeRegexies, lineIdx, lineMatchItems, fmk,
          regexIdx, subMatchItems>>

findVars == <<regex, matchItems>>
linesVars == <<excludeRegexies, lineIdx, lineMatchItems>>
fmkVars == <<includeRegexies, fmk, regexIdx, subMatchItems>>

Returned(value) == [threw |-> FALSE, value |-> value]
Threw == [threw |-> TRUE, value |-> <<>>]
NoResult == [threw |-> FALSE, value |-> <<>>]
NoFmk == [textContent |-> <<>>, extraOffset |-> 0, maxMatchLimit |-> 0]

\* Locals before the function has assigned them.
LocalsUnset ==
    /\ result = NoResult
    /\ regex = Undefined
    /\ blockIdx = 0
    /\ match = Null
    /\ lastPosition = -1
    /\ matchItems = <<>>
    /\ includeRegexies = <<>>
    /\ excludeRegexies = <<>>
    /\ lineIdx = 0
    /\ lineMatchItems = <<>>
    /\ fmk = NoFmk
    /\ regexIdx = 0
    /\ subMatchItems = <<>>

\* ------------------------------------------------------ shared conditions

\* The cap compared with > : one item too many.
LimitReachedOffByOne(items, maxMatchLimit) ==
    maxMatchLimit > 0 /\ Len(items) > maxMatchLimit

\* maxMatchLimit > 0 && items.length >= maxMatchLimit  (69, 108, 164, 206, 260)
LimitReached(items, maxMatchLimit) ==
    maxMatchLimit > 0 /\ Len(items) >= maxMatchLimit

\* The guard left out.
RepeatedIndexIgnored(last, m) == FALSE

\* lastPosition === match.index  (89, 248)
RepeatedIndex(last, m) == last = m.index

\* The guard handing back what was collected so far.
AbortedResultPartial(items) == items

\* return []  (90, 249): what the call returns when the guard trips.
AbortedResult(items) == <<>>

\* regex.lastIndex = 0  (77, 233, 292)
ResetLastIndex(r) == [r EXCEPT !.lastIndex = 0]

\* -------------------------------------------------------------------- find

InitFind ==
    /\ op = "find"
    /\ pc = "find"
    /\ args \in [partialTextContents : BlockLists,
                 keyword : Keywords,
                 isCaseSensitive : BOOLEAN,
                 isWholeWord : BOOLEAN,
                 isRegularExpression : BOOLEAN,
                 maxMatchLimit : 0..MaxLimit]
    /\ LocalsUnset

\* The block-relative index used as the absolute start.
FindMatchItemNoOffset(m, offset) ==
    MatchItem(m.index, m.index + Len(m.text), m.text)

\* The end computed from the block-relative index.
FindMatchItemEndNoOffset(m, offset) ==
    MatchItem(m.index + offset, m.index + Len(m.text), m.text)

\* Lines 98-104: the Match Item of match m found in a block at offset.
FindMatchItem(m, offset) ==
    LET matchWholePositionStart == m.index + offset
        matchWholePositionEnd == matchWholePositionStart + Len(m.text)
    IN MatchItem(matchWholePositionStart, matchWholePositionEnd, m.text)

\* Lines 56-66: the argument check and the pattern.
FindEnter ==
    /\ op = "find" /\ pc = "find"
    /\ LET r == buildFindTextRegex(args.keyword, args.isCaseSensitive,
                                   args.isWholeWord, args.isRegularExpression)
       IN IF args.keyword = <<>>
          THEN /\ result' = Threw
               /\ pc' = "done"
               /\ UNCHANGED <<regex, blockIdx>>
          ELSE IF r = Undefined
          THEN /\ result' = Returned(<<>>)
               /\ pc' = "done"
               /\ UNCHANGED <<regex, blockIdx>>
          ELSE /\ regex' = r
               /\ blockIdx' = 1
               /\ pc' = "find_for"
               /\ UNCHANGED result
    /\ UNCHANGED <<op, args, match, lastPosition, matchItems>>
    /\ UNCHANGED <<linesVars, fmkVars>>

\* Lines 68-83: the head of the for loop over the blocks, up to the first
\* exec() on the block.  Line 117 when the loop is over.
FindFor ==
    /\ op = "find" /\ pc = "find_for"
    /\ IF \/ blockIdx > Len(args.partialTextContents)
          \/ LimitReached(matchItems, args.maxMatchLimit)
       THEN /\ result' = Returned(matchItems)
            /\ pc' = "done"
            /\ UNCHANGED <<regex, match, lastPosition>>
       ELSE LET x == Exec(ResetLastIndex(regex),
                          args.partialTextContents[blockIdx].textContent)
            IN /\ regex' = x.regex
               /\ match' = x.match
               /\ lastPosition' = -1
               /\ pc' = "find_while"
               /\ UNCHANGED result
    /\ UNCHANGED <<op, args, blockIdx, matchItems>>
    /\ UNCHANGED <<linesVars, fmkVars>>

\* Lines 85-114: one iteration of the while loop (or its exit).
FindWhile ==
    /\ op = "find" /\ pc = "find_while"
    /\ LET block == args.partialTextContents[blockIdx]
           items == Append(matchItems, FindMatchItem(match, block.offset))
           x     == Exec(regex, block.textContent)
       IN IF match = Null
          THEN /\ blockIdx' = blockIdx + 1
               /\ pc' = "find_for"
               /\ UNCHANGED <<result, regex, match, lastPosition, matchItems>>
          ELSE IF RepeatedIndex(lastPosition, match)
          THEN /\ result' = Returned(AbortedResult(matchItems))
               /\ pc' = "done"
               /\ UNCHANGED <<regex, blockIdx, match, lastPosition, matchItems>>
          ELSE IF LimitReached(items, args.maxMatchLimit)
          THEN /\ matchItems' = items
               /\ lastPosition' = match.index
               /\ blockIdx' = blockIdx + 1
               /\ pc' = "find_for"
               /\ UNCHANGED <<result, regex, match>>
          ELSE /\ matchItems' = items
               /\ lastPosition' = match.index
               /\ regex' = x.regex
               /\ match' = x.match
               /\ UNCHANGED <<result, blockIdx, pc>>
    /\ UNCHANGED <<op, args>>
    /\ UNCHANGED <<linesVars, fmkVars>>

NextFind == FindEnter \/ FindFor \/ FindWhile

SpecFind == InitFind /\ [][NextFind]_vars

\* ---------------------------------------------------- findMultipleKeywords

\* Array.prototype.sort((l, r) => l.offset - r.offset)  (270-272): stable.
RECURSIVE InsertByOffset(_, _)
InsertByOffset(sorted, item) ==
    IF sorted = <<>> THEN <<item>>
    ELSE IF sorted[Len(sorted)].offset <= item.offset
         THEN Append(sorted, item)
         ELSE Append(InsertByOffset(SubSeq(sorted, 1, Len(sorted) - 1), item),
                     sorted[Len(sorted)])

RECURSIVE SortByOffset(_)
SortByOffset(items) ==
    IF items = <<>> THEN <<>>
    ELSE InsertByOffset(SortByOffset(SubSeq(items, 1, Len(items) - 1)),
                        items[Len(items)])

\* A direct call of the static method, with patterns the caller compiled.
InitFmk ==
    /\ op = "findMultipleKeywords"
    /\ pc = "fmk"
    /\ args \in [textContent : Texts,
                 includeRegexies : SeqUpTo(CompiledPatterns, MaxPatterns),
                 extraOffset : 0..1,
                 maxMatchLimit : 0..MaxLimit]
    /\ LocalsUnset

\* The call itself: the parameters and line 228.
FmkEnter ==
    /\ op = "findMultipleKeywords" /\ pc = "fmk"
    /\ includeRegexies' = args.includeRegexies
    /\ fmk' = [textContent |-> args.textContent,
               extraOffset |-> args.extraOffset,
               maxMatchLimit |-> args.maxMatchLimit]
    /\ regexIdx' = 1
    /\ subMatchItems' = <<>>
    /\ pc' = "fmk_for"
    /\ UNCHANGED <<op, args, result, blockIdx, match, lastPosition>>
    /\ UNCHANGED <<findVars, linesVars>>

\* A return of findMultipleKeywords: to findLines (line 191), or to the
\* direct caller.
FmkReturn(value) ==
    /\ subMatchItems' = value
    /\ IF op = "findLines"
       THEN pc' = "lines_exclude" /\ UNCHANGED result
       ELSE pc' = "done" /\ result' = Returned(value)

\* Lines 230-242: the head of the for loop over the patterns, up to the first
\* exec().  Lines 270-274 when the loop is over.
FmkFor ==
    /\ pc = "fmk_for"
    /\ IF regexIdx > Len(includeRegexies)
       THEN /\ FmkReturn(SortByOffset(subMatchItems))
            /\ UNCHANGED <<includeRegexies, match, lastPosition>>
       ELSE LET x == Exec(ResetLastIndex(includeRegexies[regexIdx]),
                          fmk.textContent)
            IN /\ includeRegexies' = [includeRegexies EXCEPT ![regexIdx] = x.regex]
               /\ match' = x.match
               /\ IF x.match = Null
                  THEN FmkReturn(<<>>) /\ UNCHANGED lastPosition
                  ELSE /\ lastPosition' = -1
                       /\ pc' = "fmk_while"
                       /\ UNCHANGED <<result, subMatchItems>>
    /\ UNCHANGED <<op, args, blockIdx, fmk, regexIdx>>
    /\ UNCHANGED <<findVars, linesVars>>

\* Lines 244-266: one iteration of the while loop (or its exit).
FmkWhile ==
    /\ pc = "fmk_while"
    /\ LET item  == SubMatchItem(match.index + fmk.extraOffset, match.text)
           items == Append(subMatchItems, item)
           x     == Exec(includeRegexies[regexIdx], fmk.textContent)
       IN IF match = Null
          THEN /\ regexIdx' = regexIdx + 1
               /\ pc' = "fmk_for"
               /\ UNCHANGED <<result, includeRegexies, match, lastPosition,
                              subMatchItems>>
          ELSE IF RepeatedIndex(lastPosition, match)
          THEN /\ FmkReturn(AbortedResult(subMatchItems))
               /\ UNCHANGED <<includeRegexies, match, lastPosition, regexIdx>>
          ELSE IF LimitReached(items, fmk.maxMatchLimit)
          THEN /\ subMatchItems' = items
               /\ lastPosition' = match.index
               /\ regexIdx' = regexIdx + 1
               /\ pc' = "fmk_for"
               /\ UNCHANGED <<result, includeRegexies, match>>
          ELSE /\ subMatchItems' = items
               /\ lastPosition' = match.index
               /\ includeRegexies' = [includeRegexies EXCEPT ![regexIdx] = x.regex]
               /\ match' = x.match
               /\ UNCHANGED <<result, regexIdx, pc>>
    /\ UNCHANGED <<op, args, blockIdx, fmk>>
    /\ UNCHANGED <<findVars, linesVars>>

NextFmk == FmkEnter \/ FmkFor \/ FmkWhile

\* ---------------------------------------------------- isAllKeywordsExcluded

\* The test inverted: a pattern that does NOT match disqualifies the line.
RECURSIVE isAllKeywordsExcludedInverted(_, _, _)
isAllKeywordsExcludedInverted(textContent, regexies, k) ==
    IF k > Len(regexies) THEN [value |-> TRUE, regexies |-> regexies]
    ELSE LET x == Exec(ResetLastIndex(regexies[k]), textContent)
             after == [regexies EXCEPT ![k] = x.regex]
         IN IF x.match = Null
            THEN [value |-> FALSE, regexies |-> after]
            ELSE isAllKeywordsExcludedInverted(textContent, after, k + 1)

\* Lines 286-300.  Returns the verdict and the patterns after the call (each
\* pattern tried has been reset and advanced by its one exec()).
RECURSIVE isAllKeywordsExcluded(_, _, _)
isAllKeywordsExcluded(textContent, regexies, k) ==
    IF k > Len(regexies) THEN [value |-> TRUE, regexies |-> regexies]
    ELSE LET x == Exec(ResetLastIndex(regexies[k]), textContent)
             after == [regexies EXCEPT ![k] = x.regex]
         IN IF x.match # Null
            THEN [value |-> FALSE, regexies |-> after]
            ELSE isAllKeywordsExcluded(textContent, after, k + 1)

\* --------------------------------------------------------------- findLines

InitLines ==
    /\ op = "findLines"
    /\ pc = "lines"
    /\ args \in [partialTextContents : BlockLists,
                 includeKeywords : IncludeKeywordLists,
                 excludeKeywords : ExcludeKeywordLists,
                 isCaseSensitive : BOOLEAN,
                 isWholeWord : BOOLEAN,
                 maxMatchLimit : 0..MaxLimit]
    /\ LocalsUnset

\* keywords.map(buildFindLineTextRegex).filter(item !== undefined)  (141-153)
RECURSIVE CompileLineKeywords(_, _, _)
CompileLineKeywords(keywords, isCaseSensitive, isWholeWord) ==
    IF keywords = <<>> THEN <<>>
    ELSE LET r == buildFindLineTextRegex(Head(keywords), isCaseSensitive, isWholeWord)
             rest == CompileLineKeywords(Tail(keywords), isCaseSensitive, isWholeWord)
         IN IF r = Undefined THEN rest ELSE <<r>> \o rest

\* Lines 136-161.
LinesEnter ==
    /\ op = "findLines" /\ pc = "lines"
    /\ LET inc == CompileLineKeywords(args.includeKeywords,
                                      args.isCaseSensitive, args.isWholeWord)
           exc == CompileLineKeywords(args.excludeKeywords,
                                      args.isCaseSensitive, args.isWholeWord)
       IN IF args.includeKeywords = <<>> /\ args.excludeKeywords = <<>>
          THEN /\ result' = Threw
               /\ pc' = "done"
               /\ UNCHANGED <<includeRegexies, excludeRegexies, blockIdx>>
          ELSE /\ includeRegexies' = inc
               /\ excludeRegexies' = exc
               /\ IF inc = <<>> /\ exc = <<>>
                  THEN /\ result' = Returned(<<>>)
                       /\ pc' = "done"
                       /\ UNCHANGED blockIdx
                  ELSE /\ blockIdx' = 1
                       /\ pc' = "lines_for"
                       /\ UNCHANGED result
    /\ UNCHANGED <<op, args, match, lastPosition, lineIdx, lineMatchItems,
                   fmk, regexIdx, subMatchItems>>
    /\ UNCHANGED findVars

\* Lines 163-171: the head of the for loop over the blocks.  Line 214 when
\* the loop is over.
LinesFor ==
    /\ op = "findLines" /\ pc = "lines_for"
    /\ IF \/ blockIdx > Len(args.partialTextContents)
          \/ LimitReached(lineMatchItems, args.maxMatchLimit)
       THEN /\ result' = Returned(lineMatchItems)
            /\ pc' = "done"
            /\ UNCHANGED lineIdx
       ELSE /\ lineIdx' = 1
            /\ pc' = "lines_line"
            /\ UNCHANGED result
    /\ UNCHANGED <<op, args, blockIdx, match, lastPosition, excludeRegexies,
                   lineMatchItems>>
    /\ UNCHANGED <<findVars, fmkVars>>

\* Lines 173-193: the head of the for loop over the lines of the block, up to
\* the call of findMultipleKeywords.
LinesLine ==
    /\ op = "findLines" /\ pc = "lines_line"
    /\ LET block == args.partialTextContents[blockIdx]
           lineTextSelections == getLineTextSelections(block.textContent)
       IN IF lineIdx > Len(lineTextSelections)
          THEN /\ blockIdx' = blockIdx + 1
               /\ pc' = "lines_for"
               /\ UNCHANGED <<lineIdx, fmk, regexIdx, subMatchItems>>
          ELSE LET lineTextSelection == lineTextSelections[lineIdx]
                   lineTextContent == LineTextContent(block.textContent,
                                                      lineTextSelection)
               IN IF lineTextContent = <<>>
                  THEN /\ lineIdx' = lineIdx + 1
                       /\ UNCHANGED <<pc, blockIdx, fmk, regexIdx, subMatchItems>>
                  ELSE /\ fmk' = [textContent |-> lineTextContent,
                                  extraOffset |-> block.offset + lineTextSelection.start,
                                  maxMatchLimit |-> args.maxMatchLimit]
                       /\ regexIdx' = 1
                       /\ subMatchItems' = <<>>
                       /\ pc' = "fmk_for"
                       /\ UNCHANGED <<blockIdx, lineIdx>>
    /\ UNCHANGED <<op, args, result, match, lastPosition, includeRegexies,
                   excludeRegexies, lineMatchItems>>
    /\ UNCHANGED findVars

\* Lines 195-210: the exclusion verdict and the Line Match Item.
LinesExclude ==
    /\ op = "findLines" /\ pc = "lines_exclude"
    /\ LET block == args.partialTextContents[blockIdx]
           lineTextSelection == getLineTextSelections(block.textContent)[lineIdx]
           lineWholePositionStart == block.offset + lineTextSelection.start
           lineWholePositionEnd == block.offset + lineTextSelection.end
           isAllKeywordsExcludes ==
               isAllKeywordsExcluded(fmk.textContent, excludeRegexies, 1)
           items == Append(lineMatchItems,
                           LineMatchItem(lineWholePositionStart, lineWholePositionEnd,
                                         fmk.textContent, subMatchItems))
       IN /\ excludeRegexies' = isAllKeywordsExcludes.regexies
          /\ IF /\ isAllKeywordsExcludes.value
                /\ (args.includeKeywords = <<>> \/ Len(subMatchItems) > 0)
             THEN /\ lineMatchItems' = items
                  /\ IF LimitReached(items, args.maxMatchLimit)
                     THEN /\ blockIdx' = blockIdx + 1
                          /\ pc' = "lines_for"
                          /\ UNCHANGED lineIdx
                     ELSE /\ lineIdx' = lineIdx + 1
                          /\ pc' = "lines_line"
                          /\ UNCHANGED blockIdx
             ELSE /\ lineIdx' = lineIdx + 1
                  /\ pc' = "lines_line"
                  /\ UNCHANGED <<blockIdx, lineMatchItems>>
    /\ UNCHANGED <<op, args, result, match, lastPosition>>
    /\ UNCHANGED <<findVars, fmkVars>>

NextLines == LinesEnter \/ LinesFor \/ LinesLine \/ LinesExclude \/ FmkFor \/ FmkWhile

SpecLines == InitLines /\ [][NextLines]_vars

SpecFmk == InitFmk /\ [][NextFmk]_vars

\* ----------------------------------------------------------------- replace

\* Line 356: the text between the last processed offset and the match.
UnmatchedSpan(textContent, currentOffset, start) ==
    JsSubstring(textContent, currentOffset, start)

\* The tail forgotten.
TailSpanDropped(textContent, currentOffset) == <<>>

\* Lines 374-376: the text after the last match.
TailSpan(textContent, currentOffset) ==
    IF currentOffset # Len(textContent)
    THEN JsSubstring(textContent, currentOffset, Len(textContent))
    ELSE <<>>

\* The comparison taken with <=.
BeforeCursorOrAt(currentOffset, cursorPosition) == currentOffset <= cursorPosition

\* Line 364: is the place being processed in front of the original cursor?
BeforeCursor(currentOffset, cursorPosition) == currentOffset < cursorPosition

\* Lines 349-383: the loop from match idx on, then the tail and the result.
\* stringBuffer is kept joined.
RECURSIVE ReplaceFrom(_, _, _, _, _, _, _)
ReplaceFrom(textContent, replaceText, items, cursorPosition, idx, st, stringBuffer) ==
    IF idx > Len(items)
    THEN ReplaceResult(stringBuffer \o TailSpan(textContent, st.currentOffset),
                       st.positionAfter)
    ELSE LET matchItem == items[idx]
             matchTextLength == matchItem.end - matchItem.start
             gap == IF matchItem.start # st.currentOffset
                    THEN UnmatchedSpan(textContent, st.currentOffset, matchItem.start)
                    ELSE <<>>
             \* after lines 353-358 currentOffset is matchItem.start
             currentOffset == matchItem.start
             positionAfter ==
                 IF BeforeCursor(currentOffset, cursorPosition)
                 THEN st.positionAfter + (Len(replaceText) - matchTextLength)
                 ELSE st.positionAfter
         IN ReplaceFrom(textContent, replaceText, items, cursorPosition, idx + 1,
                        [currentOffset |-> currentOffset + matchTextLength,
                         positionAfter |-> positionAfter],
                        stringBuffer \o gap \o replaceText)

\* TextFindAndReplace.replace
replace(textContent, replaceText, items, cursorPosition) ==
    ReplaceFrom(textContent, replaceText, items, cursorPosition, 1,
                [currentOffset |-> 0, positionAfter |-> cursorPosition], <<>>)

\* Match lists of exactly k items over t starting at or after from: in
\* ascending order and not overlapping (zero-width and adjacent ones too), as
\* find returns them.
RECURSIVE MatchListsOfLen(_, _, _)
MatchListsOfLen(t, k, from) ==
    IF k = 0 THEN {<<>>}
    ELSE UNION { { <<MatchItem(x[1], x[2], Substring(t, x[1], x[2]))>> \o rest :
                     rest \in MatchListsOfLen(t, k - 1, x[2]) } :
                 x \in { y \in (from..Len(t)) \X (from..Len(t)) : y[1] <= y[2] } }

MatchLists(t) == UNION { MatchListsOfLen(t, k, 0) : k \in 0..MaxMatches }

InitReplace ==
    /\ op = "replace"
    /\ pc = "replace"
    /\ \E t \in SeqUpTo(Chars, MaxText) :
         args \in [textContent : {t},
                   replaceText : SeqUpTo({"x"}, MaxReplace),
                   matchItems : MatchLists(t),
                   cursorPosition : 0..Len(t)]
    /\ LocalsUnset

Replace ==
    /\ op = "replace" /\ pc = "replace"
    /\ result' = Returned(replace(args.textContent, args.replaceText,
                                  args.matchItems, args.cursorPosition))
    /\ pc' = "done"
    /\ UNCHANGED <<op, args, blockIdx, match, lastPosition>>
    /\ UNCHANGED <<findVars, linesVars, fmkVars>>

NextReplace == Replace

SpecReplace == InitReplace /\ [][NextReplace]_vars

\* ------------------------------------------------------------ the library

Init == InitFind \/ InitLines \/ InitFmk \/ InitReplace

Next ==
    \/ FindEnter \/ FindFor \/ FindWhile
    \/ LinesEnter \/ LinesFor \/ LinesLine \/ LinesExclude
    \/ FmkEnter \/ FmkFor \/ FmkWhile
    \/ Replace

Spec == Init /\ [][Next]_vars

\* find and findLines, the two scanners.
InitScan == InitFind \/ InitLines

NextScan ==
    \/ FindEnter \/ FindFor \/ FindWhile
    \/ LinesEnter \/ LinesFor \/ LinesLine \/ LinesExclude
    \/ FmkFor \/ FmkWhile

SpecScan == InitScan /\ [][NextScan]_vars

\* find and findMultipleKeywords, the two functions with a scan loop of their
\* own, run to completion: a call is synchronous and nothing suspends it.
InitLoops == InitFind \/ InitFmk

NextLoops ==
    \/ FindEnter \/ FindFor \/ FindWhile
    \/ FmkEnter \/ FmkFor \/ FmkWhile

SpecLoops == InitLoops /\ [][NextLoops]_vars /\ WF_vars(NextLoops)

\* ================================================================== claims

FindReturned == op = "find" /\ pc = "done" /\ ~result.threw
LinesReturned == op = "findLines" /\ pc = "done" /\ ~result.threw
ReplaceReturned == op = "replace" /\ pc = "done"

\* item is the occurrence found at block-relative index i of block b.
IsOccurrenceAt(item, b, i) ==
    /\ item.start = b.offset + i
    /\ item.end = item.start + Len(item.textContent)
    /\ i + Len(item.textContent) <= Len(b.textContent)
    /\ item.textContent =
           Substring(b.textContent, i, i + Len(item.textContent))

\* --------------------------------------------------------------------- C1

\* C1: with a non-empty literal keyword and no match cap, every Match Item
\* find returns has start = offset of a block + the index of the match in
\* that block, end = start + length of its text, and as text the block's text
\* between these positions.
C1_FindOffsets ==
    (/\ FindReturned
     /\ args.keyword # <<>>
     /\ ~args.isRegularExpression
     /\ args.maxMatchLimit = 0) =>
        \A n \in 1..Len(result.value) :
            \E k \in 1..Len(args.partialTextContents) :
                \E i \in 0..Len(args.partialTextContents[k].textContent) :
                    IsOccurrenceAt(result.value[n], args.partialTextContents[k], i)

\* A literal search that returned a match of the second block, which starts
\* at offset 1.
C1_Witness ==
    /\ FindReturned /\ ~args.isRegularExpression /\ args.maxMatchLimit = 0
    /\ Len(args.partialTextContents) = 2
    /\ args.partialTextContents[2].offset = 1
    /\ Len(result.value) = 2
    /\ result.value[2].start = 1 /\ result.value[2].end = 2

\* --------------------------------------------------------------------- C2

DotStar == <<".", "*">>

DotStarFindReturned ==
    /\ FindReturned
    /\ args.isRegularExpression
    /\ args.keyword = DotStar
    /\ args.partialTextContents # <<>>

\* C2 as stated: find with the regex keyword .* returns the empty sequence
\* for every non-empty block list and every maxMatchLimit >= 0.
C2_AlwaysEmpty == DotStarFindReturned => result.value = <<>>

\* C2, amended: find with the regex keyword .* returns the empty sequence
\* when maxMatchLimit is 0 or at least 3; with maxMatchLimit 1 it returns
\* one item, and with maxMatchLimit 2 either two items or none: the cap is
\* tested after every match and stops the scan before the guard can see a
\* repeated index.  When the guard trips the matches collected so far are
\* discarded.
C2_EmptyUnlessCapFirst ==
    DotStarFindReturned =>
        /\ args.maxMatchLimit \notin {1, 2} => result.value = <<>>
        /\ args.maxMatchLimit = 1 => Len(result.value) = 1
        /\ args.maxMatchLimit = 2 => Len(result.value) \in {0, 2}

\* The guard tripped after two matches had been collected, with a cap that
\* was not reached, and the call returned nothing.
C2_Witness ==
    /\ DotStarFindReturned
    /\ args.maxMatchLimit = 3
    /\ Len(matchItems) = 2
    /\ RepeatedIndex(lastPosition, match)
    /\ result.value = <<>>

\* --------------------------------------------------------------------- C3

\* Upper bound of 2 + the length of any scanned text.
RankWidth == MaxDoc + 3

\* A measure of the work left in a call of find or findMultipleKeywords:
\* loops left to start, then positions the scan has not yet passed.
Rank ==
    CASE pc = "done" -> 0
      [] pc = "find" -> 2 + Len(args.partialTextContents) * RankWidth
      [] pc = "find_for" ->
            1 + (Len(args.partialTextContents) - blockIdx + 1) * RankWidth
      [] pc = "find_while" ->
            2 + (Len(args.partialTextContents) - blockIdx) * RankWidth
              + (Len(args.partialTextContents[blockIdx].textContent) - lastPosition)
      [] pc = "fmk" -> 2 + Len(args.includeRegexies) * RankWidth
      [] pc = "fmk_for" ->
            1 + (Len(includeRegexies) - regexIdx + 1) * RankWidth
      [] pc = "fmk_while" ->
            2 + (Len(includeRegexies) - regexIdx) * RankWidth
              + (Len(fmk.textContent) - lastPosition)
      [] OTHER -> -1

\* C3: find and findMultipleKeywords terminate on every input: every step of
\* a call strictly decreases a non-negative measure (an iteration of a scan
\* loop that goes on has moved the match index forward), and the call
\* returns.
C3_Terminates ==
    /\ [][Rank' < Rank /\ Rank' >= 0]_vars
    /\ <>(pc = "done")

\* A scan over a pattern that matched the empty string twice at the same
\* index (the cursor did not advance), ended by the guard.
C3_Witness ==
    /\ pc = "done"
    /\ op \in {"find", "findMultipleKeywords"}
    /\ args.maxMatchLimit = 0
    /\ match # Null
    /\ match.text = <<>>
    /\ lastPosition = match.index

\* --------------------------------------------------------------------- C4

\* C4: with maxMatchLimit = N > 0 find returns at most N Match Items and
\* findLines at most N Line Match Items, whatever the blocks and keywords.
C4_CapBoundsResult ==
    ((FindReturned \/ LinesReturned) /\ args.maxMatchLimit > 0) =>
        Len(result.value) <= args.maxMatchLimit

\* findLines stopped by a cap of 1 after the first block, with a second block
\* holding the same qualifying line.
C4_Witness ==
    /\ LinesReturned
    /\ args.maxMatchLimit = 1
    /\ Len(result.value) = 1
    /\ Len(args.partialTextContents) = 2
    /\ args.partialTextContents[2].textContent = args.partialTextContents[1].textContent
    /\ result.value[1].start = args.partialTextContents[1].offset
    /\ blockIdx = 2

\* --------------------------------------------------------------------- C5

\* Blocks in position order, none overlapping the next.
BlocksInOrder(blocks) ==
    \A k \in 1..(Len(blocks) - 1) :
        blocks[k].offset + Len(blocks[k].textContent) <= blocks[k + 1].offset

\* C5: for blocks in position order that do not overlap, what find and
\* findLines return is sorted ascending by start and its items do not
\* overlap: a.end <= b.start for consecutive items a, b.
C5_SortedDisjoint ==
    ((FindReturned \/ LinesReturned) /\ BlocksInOrder(args.partialTextContents)) =>
        \A n \in 1..(Len(result.value) - 1) :
            /\ result.value[n].start <= result.value[n + 1].start
            /\ result.value[n].end <= result.value[n + 1].start

\* find returned matches of two blocks, the second block not at offset 0.
C5_Witness ==
    /\ FindReturned
    /\ Len(args.partialTextContents) = 2
    /\ Len(result.value) = 2
    /\ result.value[1].end <= args.partialTextContents[2].offset
    /\ result.value[2].start >= args.partialTextContents[2].offset
    /\ result.value[2].start > 0

\* --------------------------------------------------------------------- C6

\* Does line contain keyword kw at offset i, under the flags of the search?
OccursAt(line, kw, i, isCaseSensitive, isWholeWord) ==
    /\ i + Len(kw) <= Len(line)
    /\ \A j \in 1..Len(kw) :
           IF isCaseSensitive THEN line[i + j] = kw[j]
           ELSE FoldCase(line[i + j]) = FoldCase(kw[j])
    /\ isWholeWord =>
           IsWordBoundary(line, i) /\ IsWordBoundary(line, i + Len(kw))

ContainsKeyword(line, kw) ==
    \E i \in 0..Len(line) :
        OccursAt(line, kw, i, args.isCaseSensitive, args.isWholeWord)

\* The condition of the claim on a line: every include keyword, no exclude
\* keyword.
LineQualifies(line) ==
    /\ line # <<>>
    /\ \A n \in 1..Len(args.includeKeywords) :
           ContainsKeyword(line, args.includeKeywords[n])
    /\ \A n \in 1..Len(args.excludeKeywords) :
           ~ContainsKeyword(line, args.excludeKeywords[n])

\* The lines of the blocks, as <<block index, line index>>.
BlockLines ==
    { x \in (1..Len(args.partialTextContents)) \X (1..(MaxDoc + 2)) :
        x[2] <= Len(getLineTextSelections(
                        args.partialTextContents[x[1]].textContent)) }

\* item is the Line Match Item of line x.
IsLineItem(item, x) ==
    LET block == args.partialTextContents[x[1]]
        sel == getLineTextSelections(block.textContent)[x[2]]
    IN /\ item.start = block.offset + sel.start
       /\ item.end = block.offset + sel.end
       /\ item.textContent = LineTextContent(block.textContent, sel)

LineOf(x) ==
    LET block == args.partialTextContents[x[1]]
    IN LineTextContent(block.textContent,
                       getLineTextSelections(block.textContent)[x[2]])

KeywordsNonEmpty ==
    /\ \A n \in 1..Len(args.includeKeywords) : args.includeKeywords[n] # <<>>
    /\ \A n \in 1..Len(args.excludeKeywords) : args.excludeKeywords[n] # <<>>

\* C6: with non-empty keywords, every Line Match Item findLines returns is a
\* non-blank line that contains every include keyword and no exclude
\* keyword; an item with sub-matches is a line where every include keyword
\* matched, whatever the cap; and with maxMatchLimit = 0 every such line is
\* returned.
C6_IncludeAndExclude ==
    (LinesReturned /\ KeywordsNonEmpty) =>
        /\ \A n \in 1..Len(result.value) :
               /\ \E x \in BlockLines : IsLineItem(result.value[n], x)
               /\ LineQualifies(result.value[n].textContent)
               /\ result.value[n].subMatchItems # <<>> =>
                      \A j \in 1..Len(args.includeKeywords) :
                          ContainsKeyword(result.value[n].textContent,
                                          args.includeKeywords[j])
        /\ args.maxMatchLimit = 0 =>
               \A x \in BlockLines :
                   LineQualifies(LineOf(x)) =>
                       \E n \in 1..Len(result.value) : IsLineItem(result.value[n], x)

\* Two include keywords and an exclude keyword, a line that holds both
\* include keywords returned with its two sub-matches, and a line (of the
\* other block) that lacks one of them or holds the exclude keyword left out.
C6_Witness ==
    /\ LinesReturned /\ KeywordsNonEmpty
    /\ Len(args.includeKeywords) = 2
    /\ args.isCaseSensitive
    /\ Len(result.value) = 1
    /\ Len(result.value[1].subMatchItems) = 2
    /\ \E x \in BlockLines :
           /\ LineOf(x) # <<>>
           /\ ~LineQualifies(LineOf(x))

\* --------------------------------------------------------------------- C7

\* t with the spans of items[1..n] replaced by r, done from the last span
\* to the first so that the offsets of the spans still to replace stay valid.
RECURSIVE Spliced(_, _, _, _)
Spliced(t, r, items, n) ==
    IF n = 0 THEN t
    ELSE Spliced(SubSeq(t, 1, items[n].start) \o r
                    \o SubSeq(t, items[n].end + 1, Len(t)),
                 r, items, n - 1)

RECURSIVE SumOfLengths(_, _)
SumOfLengths(items, n) ==
    IF n = 0 THEN 0
    ELSE (items[n].end - items[n].start) + SumOfLengths(items, n - 1)

\* C7: for matches in ascending order that do not overlap, the text replace
\* returns is the original with every matched span replaced by the
\* replacement and everything else (the tail too) kept; its length is
\* length(T) - sum of the match lengths + length(R) * number of matches.
C7_ReplacedText ==
    ReplaceReturned =>
        /\ result.value.textContent =
               Spliced(args.textContent, args.replaceText, args.matchItems,
                       Len(args.matchItems))
        /\ Len(result.value.textContent) =
               Len(args.textContent)
                 - SumOfLengths(args.matchItems, Len(args.matchItems))
                 + Len(args.replaceText) * Len(args.matchItems)

\* A zero-width match directly followed by an adjacent match, with text left
\* before the first and after the last.
C7_Witness ==
    /\ ReplaceReturned
    /\ Len(args.matchItems) = 2
    /\ args.matchItems[1].start = 1 /\ args.matchItems[1].end = 1
    /\ args.matchItems[2].start = 1 /\ args.matchItems[2].end = 2
    /\ Len(args.textContent) = 3
    /\ Len(args.replaceText) = 2

\* --------------------------------------------------------------------- C8

\* Sum of length(R) - match length over the matches that start before c.
RECURSIVE SumOfDeltasBefore(_, _, _, _)
SumOfDeltasBefore(items, r, c, n) ==
    IF n = 0 THEN 0
    ELSE (IF items[n].start < c
          THEN Len(r) - (items[n].end - items[n].start)
          ELSE 0)
         + SumOfDeltasBefore(items, r, c, n - 1)

\* C8: the cursor replace returns is the original cursor plus
\* length(R) - match length for every match that starts before the cursor;
\* a match that starts at or after the cursor leaves it unchanged.
C8_CursorDelta ==
    ReplaceReturned =>
        result.value.cursorPosition =
            args.cursorPosition
              + SumOfDeltasBefore(args.matchItems, args.replaceText,
                                  args.cursorPosition, Len(args.matchItems))

\* A one-character match before the cursor and one at the cursor, replaced by
\* two characters: the cursor moves by 1, not by 2.
C8_Witness ==
    /\ ReplaceReturned
    /\ Len(args.matchItems) = 2
    /\ args.matchItems[1].start = 0 /\ args.matchItems[1].end = 1
    /\ args.matchItems[2].start = 2 /\ args.matchItems[2].end = 3
    /\ args.cursorPosition = 2
    /\ Len(args.replaceText) = 2
    /\ result.value.cursorPosition = 3

\* --------------------------------------------------------------------- C9

\* C9: the Replace Result satisfies 0 <= cursorPosition <= length(textContent)
\* for every cursor within the text and matches in ascending order that do
\* not overlap.
C9_CursorInRange ==
    ReplaceReturned =>
        /\ 0 <= result.value.cursorPosition
        /\ result.value.cursorPosition <= Len(result.value.textContent)

\* -------------------------------------------------------------------- C10

\* C10: with wholeWord the pattern is the keyword (verbatim for a regex,
\* escaped otherwise) wrapped in word-boundary anchors, for both values of
\* isRegex; so no match find returns with wholeWord has a side that is not a
\* word boundary.
C10_WholeWordWraps ==
    /\ (op = "find" /\ pc \in {"find_for", "find_while"} /\ args.isWholeWord) =>
           [regex EXCEPT !.lastIndex = 0] =
               NewRegExp(<<BS, "b">>
                            \o (IF args.isRegularExpression THEN args.keyword
                                ELSE escapeRegularExpress(args.keyword))
                            \o <<BS, "b">>,
                         ~args.isCaseSensitive)
    /\ (FindReturned /\ args.isWholeWord) =>
           \A n \in 1..Len(result.value) :
               \E k \in 1..Len(args.partialTextContents) :
                   \E i \in 0..Len(args.partialTextContents[k].textContent) :
                       LET b == args.partialTextContents[k] IN
                       /\ IsOccurrenceAt(result.value[n], b, i)
                       /\ IsWordBoundary(b.textContent, i)
                       /\ IsWordBoundary(b.textContent,
                                         i + Len(result.value[n].textContent))

\* -------------------------------------------------------------------- C11

FmkReturned == op = "findMultipleKeywords" /\ pc = "done"

\* C11: with maxMatchLimit = N > 0 findMultipleKeywords returns at most N Sub
\* Match Items, counted over all the patterns of the call and not per
\* pattern, and returns them sorted ascending by offset.
C11_CapBoundsSubMatches ==
    (FmkReturned /\ args.maxMatchLimit > 0) =>
        /\ Len(result.value) <= args.maxMatchLimit
        /\ \A n \in 1..(Len(result.value) - 1) :
               result.value[n].offset <= result.value[n + 1].offset

====
